---------------------------- MODULE Spec2Model ----------------------------
(***************************************************************************)
(* Model of the ssphys record/object core of vss2svn:                      *)
(*   - CAction::ActionToString and the g_szActions table (SSTypes.cpp)     *)
(*   - SSRecord offsets (SSRecord.h)                                       *)
(*   - SSBranchFileObject field accessors (SSBranchFileObject.h)           *)
(*   - CValidateCommand::Execute (ValidateCommand.cpp)                     *)
(* The record reader, the validator and the chain resolver are only        *)
(* declared in these sources; their bodies follow the design document.     *)
(***************************************************************************)
EXTENDS Integers, Sequences, FiniteSets, TLC

VARIABLES
  file,       \* the bytes of the physical file
  layout,     \* ghost: the records the file was built from
  cut,        \* ghost: bytes cut off the end of the last record
  pc,         \* position of CValidateCommand::Execute
  session,    \* scan session lifecycle: "none", "Scanning", "Done"
  outcome,    \* how the session / command ended
  success,    \* the pass/fail signal of Validate
  errOffset,  \* offset carried by TruncatedRecord
  offset,     \* current read offset of the scan
  records,    \* records yielded so far, in order
  findings,   \* validator findings, in order
  walk,       \* chain walk status
  cur,        \* object the chain walk stands on
  hops,       \* hops taken by the chain walk
  resolved,   \* result of the last previousOf call
  got,        \* result of the last direct field accessor call
  code,       \* last action code handed to ActionToString
  action      \* result of the last ActionToString call

vars == <<file, layout, cut, pc, session, outcome, success, errOffset,
          offset, records, findings, walk, cur, hops, resolved, got, code,
          action>>

scanVars == <<pc, session, outcome, success, errOffset, offset, records,
              findings>>
fileVars == <<file, layout, cut>>
walkVars == <<walk, cur, hops, resolved>>
actVars  == <<code, action>>

-----------------------------------------------------------------------------
(* Bounds of the model *)

MaxFileLen == 10

MaxPayload == 2

MaxPrev == 5

MaxCode == 60

-----------------------------------------------------------------------------
(* SSTypes.cpp : the action table *)

\* the table with the second placeholder stored at index 19
g_szActions_GapAt19 ==
  << "Labeled", "Created Project", "Added Project", "Added File",
     "Destroyed Project", "Destroyed File", "Deleted Project", "Deleted File",
     "Recovered Project", "Recovered File", "Renamed Project", "Renamed File",
     "Moved Project From", "Moved Project To", "Shared File", "Branch File",
     "Created File", "Checked In", "Action 18", "Action 19",
     "RollBack", "Archive Versions of File", "Archive File",
     "Archive Project", "Restored File", "Restored Project",
     "Pinned File", "Unpinned File" >>

g_szActions ==
  << "Labeled", "Created Project", "Added Project", "Added File",
     "Destroyed Project", "Destroyed File", "Deleted Project", "Deleted File",
     "Recovered Project", "Recovered File", "Renamed Project", "Renamed File",
     "Moved Project From", "Moved Project To", "Shared File", "Branch File",
     "Created File", "Checked In", "Action 18", "RollBack",
     "Archive Versions of File", "Action 19", "Archive File",
     "Archive Project", "Restored File", "Restored Project",
     "Pinned File", "Unpinned File" >>

countof_g_szActions == Len(g_szActions)

IntMax == 2147483647

IntMin == (-IntMax) - 1

\* conversion of a 32-bit int to a 32-bit unsigned value, kept as
\* <<top bit, low 31 bits>> (two's complement)
ToUnsigned(e) ==
  IF e < 0 THEN [hi |-> 1, lo |-> (e + IntMax) + 1] ELSE [hi |-> 0, lo |-> e]

UnsignedLess(a, b) == a.hi < b.hi \/ (a.hi = b.hi /\ a.lo < b.lo)

NoIndex == IntMin

\* the table slot an index reads: a label inside the table, garbage outside
TableRead(i) ==
  IF i >= 0 /\ i < countof_g_szActions THEN g_szActions[i + 1] ELSE "<garbage>"

ActionToString_Signed(e) ==
  IF e < countof_g_szActions
    THEN [index |-> e, label |-> TableRead(e)]
    ELSE [index |-> NoIndex, label |-> "unknown"]

\* if (e < countof (g_szActions)) return g_szActions[e]; return "unknown";
\* the comparison is made in the unsigned type of countof
ActionToString(e) ==
  IF UnsignedLess(ToUnsigned(e), ToUnsigned(countof_g_szActions))
    THEN [index |-> e, label |-> TableRead(e)]
    ELSE [index |-> NoIndex, label |-> "unknown"]

-----------------------------------------------------------------------------
(* SSRecord.h : record kinds, headers and offsets *)

eType ==
  { "eNone", "eItemRecord", "eHistoryRecord", "eCommentRecord",
    "eCheckOutRecord", "eParentFolder", "eFileDelta", "eNamesCache",
    "eNameCacheEntry", "eProjectEntry", "eUsersHeader", "eUser",
    "eBranchFile", "eUnknown" }

\* two-character tags as pairs of character codes
TagBF == << 66, 70 >>
TagEL == << 69, 76 >>
TagZZ == << 90, 90 >>

\* SSRecord::StringToType: the fixed tag table, eUnknown for anything else
StringToType(type) ==
  CASE type = << 68, 72 >> -> "eItemRecord"      \* DH
    [] type = << 69, 76 >> -> "eHistoryRecord"   \* EL
    [] type = << 77, 67 >> -> "eCommentRecord"   \* MC
    [] type = << 67, 70 >> -> "eCheckOutRecord"  \* CF
    [] type = << 80, 70 >> -> "eParentFolder"    \* PF
    [] type = << 70, 68 >> -> "eFileDelta"       \* FD
    [] type = << 72, 78 >> -> "eNamesCache"      \* HN
    [] type = << 83, 78 >> -> "eNameCacheEntry"  \* SN
    [] type = << 74, 80 >> -> "eProjectEntry"    \* JP
    [] type = << 72, 85 >> -> "eUsersHeader"     \* HU
    [] type = << 85, 85 >> -> "eUser"            \* UU
    [] type = << 66, 70 >> -> "eBranchFile"      \* BF
    [] OTHER -> "eUnknown"

\* sizeof (RECORD_HEADER): the two tag bytes and the length field
HeaderSize == 3

\* sizeof (BF): previousOffset, then branchToPhys
BFSize == 2

\* byte position of each BF field inside the payload (1-based)
BF_previousOffset == 1
BF_branchToPhys == 2

GetLen(r) == r.m_Len

GetOffset(r) == r.m_Offset

GetNextOffset_NoHeader(r) == r.m_Offset + r.m_Len

GetNextOffset_NoLen(r) == r.m_Offset + HeaderSize

GetNextOffset_NoProgress(r) == r.m_Offset

GetNextOffset_OffByOne(r) == r.m_Offset + r.m_Len + HeaderSize + 1

\* off_t GetNextOffset () const { return m_Offset + m_Len + sizeof(m_Header); }
GetNextOffset(r) == r.m_Offset + r.m_Len + HeaderSize

GetRecordType(r) == r.type

GetType(r) == StringToType(GetRecordType(r))

\* payload bytes a record kind needs for its fixed layout
MinLayout(kind) == IF kind = "eBranchFile" THEN BFSize ELSE 0

\* SSRecord::IsValid
IsValid(r) ==
  /\ GetLen(r) >= 0
  /\ GetType(r) # "eUnknown"
  /\ GetLen(r) >= MinLayout(GetType(r))

\* byte of the file at a 0-based offset
ByteAt(f, o) == f[o + 1]

\* the record whose header starts at offset o, as SSRecord (filePtr, offset)
\* builds it
RecordAt(f, o) ==
  [ m_Offset |-> o,
    m_Len    |-> ByteAt(f, o + 2),
    type     |-> << ByteAt(f, o), ByteAt(f, o + 1) >> ]

HeaderFits(f, o) == o >= 0 /\ o + HeaderSize <= Len(f)

PayloadFits(f, o) == o + HeaderSize + ByteAt(f, o + 2) <= Len(f)

-----------------------------------------------------------------------------
(* SSBranchFileObject.h : typed view over a record's payload *)

\* values a read outside the payload buffer can produce
StrayBytes == 0 .. MaxPrev

\* GetData ()->field : the payload pointer is reinterpreted as BF and the
\* field is read at its fixed position, whatever the payload length is.
\* The result is the set of values the read can return.
GetData(f, r, pos) ==
  IF pos <= GetLen(r)
    THEN { [value |-> ByteAt(f, GetOffset(r) + HeaderSize + pos - 1),
            outside |-> FALSE] }
    ELSE { [value |-> v, outside |-> TRUE] : v \in StrayBytes }

GetPreviousOffset_WrongField(f, r) == GetData(f, r, BF_branchToPhys)

\* ulong32 GetPreviousOffset () const { return GetData ()->previousOffset; }
GetPreviousOffset(f, r) == GetData(f, r, BF_previousOffset)

\* std::string GetBranchToPhys () const { return GetData ()->branchToPhys; }
GetBranchToPhys(f, r) == GetData(f, r, BF_branchToPhys)

\* the object built for a record: its kind and the invalid mark
buildObject(r) ==
  [ record |-> r, kind |-> GetType(r), invalid |-> ~IsValid(r) ]

NoObject == [ record |-> [m_Offset |-> -1, m_Len |-> 0, type |-> << 0, 0 >>],
              kind |-> "eNone", invalid |-> TRUE ]

NoResult == [ status |-> "none", from |-> -1, previousOffset |-> -1,
              object |-> NoObject ]

MaxHops_NoDivision(f) == Len(f)

\* hops a chain may take: file size / minimum record size
MaxHops(f) == Len(f) \div HeaderSize

\* ChainResolver.previousOf / SSBranchFileObject::GetPrevious on a valid
\* BranchFile object: re-read the record at previousOffset
previousOf(f, r) ==
  LET p == (CHOOSE g \in GetPreviousOffset(f, r) : TRUE).value
      base == [ from |-> GetOffset(r), previousOffset |-> p ]
  IN  IF p = GetOffset(r)
        THEN [ status |-> "NotFound", object |-> NoObject ] @@ base
      ELSE IF ~HeaderFits(f, p) \/ ~PayloadFits(f, p)
        THEN [ status |-> "BrokenChain", object |-> NoObject ] @@ base
      ELSE IF buildObject(RecordAt(f, p)).kind # "eBranchFile"
              \/ buildObject(RecordAt(f, p)).invalid
        THEN [ status |-> "BrokenChain", object |-> NoObject ] @@ base
      ELSE [ status |-> "Found", object |-> buildObject(RecordAt(f, p)) ]
             @@ base

-----------------------------------------------------------------------------
(* Validator: one finding per problematic object *)

Visit(r) ==
  IF GetType(r) = "eUnknown"
    THEN << [ kind |-> "UnknownRecordKind", offset |-> GetOffset(r) ] >>
  ELSE IF buildObject(r).invalid
    THEN << [ kind |-> "InvalidPayload", offset |-> GetOffset(r) ] >>
  ELSE << >>

-----------------------------------------------------------------------------
(* Files the model starts from *)

TagChoices == { TagBF, TagEL, TagZZ }

Payload(first, len) == [ k \in 1 .. len |-> IF k = 1 THEN first ELSE 65 ]

\* BranchFile records carry every previousOffset up to MaxPrev; the payload
\* of the other kinds is not decoded and is filled with zero
RecChoices ==
  { [ tag |-> TagBF, payload |-> Payload(b, n) ] :
      n \in 0 .. MaxPayload, b \in 0 .. MaxPrev }
  \cup
  { [ tag |-> t, payload |-> Payload(0, n) ] :
      t \in TagChoices \ { TagBF }, n \in 0 .. MaxPayload }

RecSize(rec) == HeaderSize + Len(rec.payload)

\* the record lists whose concatenation is at most n bytes long
RECURSIVE ListsUpTo(_)
ListsUpTo(n) ==
  { << >> } \cup
  UNION { { << r >> \o l : l \in ListsUpTo(n - RecSize(r)) } :
            r \in { q \in RecChoices : RecSize(q) <= n } }

RecLists == ListsUpTo(MaxFileLen)

Encode(rec) == << rec.tag[1], rec.tag[2], Len(rec.payload) >> \o rec.payload

RECURSIVE Build(_)
Build(recs) ==
  IF recs = << >> THEN << >> ELSE Encode(Head(recs)) \o Build(Tail(recs))

\* offset of the i-th record of a record list
RECURSIVE LayoutOffset(_, _)
LayoutOffset(recs, i) ==
  IF i = 1 THEN 0
  ELSE LayoutOffset(recs, i - 1) + HeaderSize + Len(recs[i - 1].payload)

-----------------------------------------------------------------------------
(* Initial states *)

NotCalled == [ index |-> NoIndex, label |-> "<not called>" ]

NoGot == [ offset |-> -1, field |-> "none", value |-> -1, outside |-> FALSE ]

Idle ==
  /\ pc = "start"
  /\ session = "none"
  /\ outcome = "none"
  /\ success = FALSE
  /\ errOffset = -1
  /\ offset = 0
  /\ records = << >>
  /\ findings = << >>
  /\ walk = "idle"
  /\ cur = NoObject
  /\ hops = 0
  /\ resolved = NoResult
  /\ got = NoGot

\* bytes that can be cut off a record list: less than its last record
MaxCut(recs) ==
  IF recs = << >> THEN 0 ELSE HeaderSize + Len(recs[Len(recs)].payload) - 1

\* a file is a concatenation of records, the last one possibly cut short
Init ==
  /\ \E recs \in RecLists :
       \E c \in 0 .. MaxCut(recs) :
         /\ file = SubSeq(Build(recs), 1, Len(Build(recs)) - c)
         /\ cut = c
         /\ layout = recs
  /\ Idle
  /\ code = 0
  /\ action = NotCalled

-----------------------------------------------------------------------------
(* CValidateCommand::Execute *)

\* what SSRecordFile::MakeFile can hand back for a path: a file object, a
\* null pointer (the result Execute tests for), or the FileNotRecognized
\* error (the file cannot be opened or its first header is unreadable)
MakeFile(f) ==
  IF Len(f) < HeaderSize
    THEN { "null", "FileNotRecognized" }
    ELSE { "file", "null", "FileNotRecognized" }

\* std::auto_ptr<SSRecordFile> pFile (SSRecordFile::MakeFile (arg));
\* if (pFile.get()) { pFile->Validate (); }
Execute ==
  /\ pc = "start"
  /\ \E res \in MakeFile(file) :
       CASE res = "file" ->
              /\ pc' = "validate"
              /\ session' = "Scanning"
              /\ UNCHANGED outcome
         [] res = "null" ->
              /\ pc' = "returned"
              /\ UNCHANGED << session, outcome >>
         [] res = "FileNotRecognized" ->
              /\ pc' = "returned"
              /\ session' = "Done"
              /\ outcome' = "FileNotRecognized"
  /\ UNCHANGED << success, errOffset, offset, records, findings >>
  /\ UNCHANGED << fileVars, walkVars, got, actVars >>

\* Validate: fewer than header-size bytes remain, the scan ends cleanly
ScanEOF ==
  /\ pc = "validate"
  /\ ~HeaderFits(file, offset)
  /\ pc' = "returned"
  /\ session' = "Done"
  /\ outcome' = "Finished"
  /\ success' = (findings = << >>)
  /\ UNCHANGED << errOffset, offset, records, findings >>
  /\ UNCHANGED << fileVars, walkVars, got, actVars >>

\* Validate: the header declares more payload than the file still holds
ScanTruncated ==
  /\ pc = "validate"
  /\ HeaderFits(file, offset)
  /\ ~PayloadFits(file, offset)
  /\ pc' = "returned"
  /\ session' = "Done"
  /\ outcome' = "TruncatedRecord"
  /\ errOffset' = offset
  /\ UNCHANGED << success, offset, records, findings >>
  /\ UNCHANGED << fileVars, walkVars, got, actVars >>

\* Validate: one record is read, visited by the validator, and the scan
\* advances to GetNextOffset
ScanRecord ==
  /\ pc = "validate"
  /\ HeaderFits(file, offset)
  /\ PayloadFits(file, offset)
  /\ LET r == RecordAt(file, offset)
     IN  /\ records' = Append(records, r)
         /\ findings' = findings \o Visit(r)
         /\ offset' = GetNextOffset(r)
  /\ UNCHANGED << pc, session, outcome, success, errOffset >>
  /\ UNCHANGED << fileVars, walkVars, got, actVars >>

-----------------------------------------------------------------------------
(* Consumers of the objects of a scanned file *)

\* a caller reads a field of a BranchFile object through its accessor
\* (each consumer run, accessor reads or one chain walk, is followed on its
\* own)
CallAccessor ==
  /\ pc = "returned"
  /\ walk = "idle"
  /\ \E i \in 1 .. Len(records) :
       /\ GetType(records[i]) = "eBranchFile"
       /\ \/ \E g \in GetPreviousOffset(file, records[i]) :
               got' = [ offset |-> GetOffset(records[i]),
                        field |-> "previousOffset",
                        value |-> g.value, outside |-> g.outside ]
          \/ \E g \in GetBranchToPhys(file, records[i]) :
               got' = [ offset |-> GetOffset(records[i]),
                        field |-> "branchToPhys",
                        value |-> g.value, outside |-> g.outside ]
  /\ UNCHANGED << fileVars, scanVars, walkVars, actVars >>

\* a chain walk starts on a valid BranchFile object
WalkStart ==
  /\ pc = "returned"
  /\ walk = "idle"
  /\ got = NoGot
  /\ \E i \in 1 .. Len(records) :
       /\ buildObject(records[i]).kind = "eBranchFile"
       /\ ~buildObject(records[i]).invalid
       /\ cur' = buildObject(records[i])
  /\ walk' = "walking"
  /\ hops' = 0
  /\ resolved' = NoResult
  /\ UNCHANGED << fileVars, scanVars, got, actVars >>

\* the hop budget is used up
WalkTooLong ==
  /\ walk = "walking"
  /\ hops >= MaxHops(file)
  /\ walk' = "ChainTooLong"
  /\ UNCHANGED << cur, hops, resolved >>
  /\ UNCHANGED << fileVars, scanVars, got, actVars >>

\* one hop: previousOf the current object
WalkStep ==
  /\ walk = "walking"
  /\ hops < MaxHops(file)
  /\ LET res == previousOf(file, cur.record)
     IN  /\ resolved' = res
         /\ CASE res.status = "Found" ->
                   /\ cur' = res.object
                   /\ hops' = hops + 1
                   /\ UNCHANGED walk
              [] res.status = "NotFound" ->
                   /\ walk' = "terminal"
                   /\ UNCHANGED << cur, hops >>
              [] OTHER ->
                   /\ walk' = "BrokenChain"
                   /\ UNCHANGED << cur, hops >>
  /\ UNCHANGED << fileVars, scanVars, got, actVars >>

Next ==
  \/ Execute
  \/ ScanEOF
  \/ ScanTruncated
  \/ ScanRecord
  \/ CallAccessor
  \/ WalkStart
  \/ WalkTooLong
  \/ WalkStep

Spec == Init /\ [][Next]_vars

\* Execute and Validate run to completion; a started chain walk is driven to
\* its end by its caller
FairSpec ==
  /\ Spec
  /\ WF_vars(Execute)
  /\ WF_vars(ScanEOF \/ ScanTruncated \/ ScanRecord)
  /\ WF_vars(WalkTooLong \/ WalkStep)

-----------------------------------------------------------------------------
(* ActionToString applied to action codes *)

ActionCodes == ((-MaxCode) .. MaxCode) \cup { IntMin, IntMin + 1, IntMax }

InitActions ==
  /\ file = << >>
  /\ cut = 0
  /\ layout = << >>
  /\ Idle
  /\ code \in ActionCodes
  /\ action = NotCalled

CallActionToString ==
  /\ action = NotCalled
  /\ action' = ActionToString(code)
  /\ UNCHANGED << code, fileVars, scanVars, walkVars, got >>

NextActions == CallActionToString

SpecActions == InitActions /\ [][NextActions]_vars

-----------------------------------------------------------------------------
(* Properties of ActionToString, checked under SpecActions *)

Called == action # NotCalled

\* C1: ActionToString is total over the integer action codes: every code
\* from 0 to 27 returns the label stored at that index of the action table,
\* every code that is negative or greater than 27 returns "unknown", and no
\* call indexes outside the 28-entry table.
C1_ActionToStringTotal ==
  Called =>
    /\ countof_g_szActions = 28
    /\ (code \in 0 .. 27) =>
         /\ action.index = code
         /\ action.label = g_szActions[code + 1]
    /\ (code < 0 \/ code > 27) =>
         /\ action.index = NoIndex
         /\ action.label = "unknown"
    /\ action.index = NoIndex \/ action.index \in 0 .. 27

\* a negative code, the smallest int, has been mapped to "unknown"
C1_Witness == Called /\ code = IntMin /\ action.label = "unknown"

Placeholders == { "Action 18", "Action 19" }

PseudoActions == { "Pinned File", "Unpinned File" }

RealLabel(l) == l \notin Placeholders \cup PseudoActions \cup { "unknown", "<garbage>" }

-----------------------------------------------------------------------------
(* The layout the file was built with, for comparison with the scan *)

WellFormed == cut = 0

\* bytes of the last layout record that are still in the file
KeptOfLast == RecSize(layout[Len(layout)]) - cut

\* the last layout record is in the file with its whole header but not its
\* whole payload
LastTruncated == layout # << >> /\ cut > 0 /\ KeptOfLast >= HeaderSize

\* number of layout records that are in the file completely
Complete == IF cut = 0 THEN Len(layout) ELSE Len(layout) - 1

\* the i-th yielded record is the i-th record of the layout
Matches(i) ==
  /\ records[i].m_Offset = LayoutOffset(layout, i)
  /\ records[i].m_Len = Len(layout[i].payload)
  /\ records[i].type = layout[i].tag

ScanEnded == session = "Done" /\ outcome \in { "Finished", "TruncatedRecord" }

-----------------------------------------------------------------------------
(* Properties of the scan, checked under Spec *)

\* C2: for a well-formed file built by concatenating N records, the forward
\* scan yields exactly N records in file order, the first at offset 0, each
\* record's nextOffset equal to offset + length + headerSize, and each later
\* record's offset equal to the nextOffset of the record before it.
C2_ScanMatchesLayout ==
  WellFormed =>
    /\ outcome # "TruncatedRecord"
    /\ Len(records) <= Len(layout)
    /\ \A i \in 1 .. Len(records) :
         /\ Matches(i)
         /\ (i = 1) => GetOffset(records[i]) = 0
         /\ GetNextOffset(records[i]) =
              LayoutOffset(layout, i) + Len(layout[i].payload) + HeaderSize
         /\ (i > 1) => GetOffset(records[i]) = GetNextOffset(records[i - 1])
    /\ (outcome = "Finished") => Len(records) = Len(layout)

\* a well-formed file of two or more records, one of them with a payload,
\* has been scanned to its end
C2_Witness ==
  /\ WellFormed
  /\ outcome = "Finished"
  /\ Len(records) >= 2
  /\ GetLen(records[1]) > 0
  /\ GetOffset(records[2]) = GetNextOffset(records[1])

\* C3 (state part): a header that declares more payload than the file holds
\* ends the scan with TruncatedRecord carrying that record's offset, with no
\* record yielded for it; a tail shorter than a header ends the scan cleanly.
C3_Ended ==
  ScanEnded =>
    IF LastTruncated
      THEN /\ outcome = "TruncatedRecord"
           /\ errOffset = LayoutOffset(layout, Len(layout))
           /\ Len(records) = Len(layout) - 1
           /\ \A i \in 1 .. Len(records) : Matches(i)
           /\ \A i \in 1 .. Len(records) :
                GetNextOffset(records[i]) <= errOffset
      ELSE /\ outcome = "Finished"
           /\ errOffset = -1
           /\ Len(file) - offset < HeaderSize
           /\ Len(records) = Complete

\* C3: when a record header declares a payload length larger than the bytes
\* remaining in the file, the scan raises TruncatedRecord carrying that
\* record's offset, returns no partial record for it and yields no further
\* records after it; when fewer than header-size bytes remain the scan ends
\* cleanly without an error.
C3_TruncatedRecord ==
  /\ [] C3_Ended
  /\ [][ outcome = "TruncatedRecord" =>
           (records' = records /\ outcome' = outcome) ]_vars

\* a scan has yielded a record and then stopped at a truncated one
C3_Witness ==
  /\ outcome = "TruncatedRecord"
  /\ Len(records) >= 1
  /\ errOffset = GetNextOffset(records[Len(records)])
  /\ errOffset + HeaderSize + ByteAt(file, errOffset + 2) > Len(file)

\* the findings the layout calls for among its first k records
RECURSIVE ExpectedFindings(_)
ExpectedFindings(k) ==
  IF k = 0 THEN << >>
  ELSE ExpectedFindings(k - 1) \o
       ( IF StringToType(layout[k].tag) = "eUnknown"
           THEN << [ kind |-> "UnknownRecordKind",
                     offset |-> LayoutOffset(layout, k) ] >>
         ELSE IF layout[k].tag = TagBF /\ Len(layout[k].payload) < BFSize
           THEN << [ kind |-> "InvalidPayload",
                     offset |-> LayoutOffset(layout, k) ] >>
         ELSE << >> )

\* C6: the Validator visits every record of the file in file order and keeps
\* going after a finding: a per-record problem (unknown tag, invalid payload)
\* adds one finding with that record's offset and never stops the scan or
\* skips later records, and Validate signals overall success if and only if
\* the finding list is empty at the end of the scan.
C6_ValidatorKeepsGoing ==
  /\ Len(records) <= Complete
  /\ \A i \in 1 .. Len(records) : Matches(i)
  /\ findings = ExpectedFindings(Len(records))
  /\ (outcome = "Finished") =>
       /\ Len(records) = Complete
       /\ success <=> (findings = << >>)
  /\ success => (outcome = "Finished" /\ findings = << >>)

\* a finding on the first record, and the second record still visited
C6_Witness ==
  /\ outcome = "Finished"
  /\ Len(records) >= 2
  /\ Len(findings) >= 1
  /\ findings[1].offset = GetOffset(records[1])
  /\ ~success

\* a scan of a file without problems has signalled success
C6_SuccessReached == outcome = "Finished" /\ Len(records) >= 1 /\ success

-----------------------------------------------------------------------------
(* Properties of the scan session, checked under FairSpec *)

Outcomes == { "FileNotRecognized", "TruncatedRecord", "Finished" }

\* C5: a scan session started on any byte sequence eventually reaches Done,
\* in exactly one of three ways (FileNotRecognized, TruncatedRecord, or a
\* finished scan with a findings list); once Done it never returns to
\* Scanning, and while Scanning every step moves the read offset forward.
C5_SessionReachesDone ==
  /\ (session = "Scanning") ~> (session = "Done")
  /\ [] (session = "Done" <=> outcome \in Outcomes)
  /\ [] (session = "Scanning" => (pc = "validate" /\ outcome = "none"))
  /\ [][ session = "Done" => session' = "Done" /\ outcome' = outcome ]_vars
  /\ [][ (session = "Scanning" /\ session' = "Scanning") =>
           offset' > offset ]_vars

\* a session has scanned records and is Done with a finished scan
C5_Witness ==
  /\ session = "Done"
  /\ outcome = "Finished"
  /\ Len(records) >= 2
  /\ offset > 0

WalkEnded == walk \in { "terminal", "BrokenChain", "ChainTooLong" }

\* C4: following previousOffset links from a BranchFile object always
\* terminates, also when the links form a cycle: the walk reaches a terminal
\* record, fails with BrokenChain, or fails with ChainTooLong after a number
\* of hops bounded by file size divided by minimum record size.
C4_WalkTerminates ==
  /\ (walk = "walking") ~> WalkEnded
  /\ [] (hops <= Len(file) \div HeaderSize)
  /\ [] (walk = "ChainTooLong" => hops = Len(file) \div HeaderSize)

\* a walk over a cycle of links has been stopped with ChainTooLong
C4_Witness ==
  /\ walk = "ChainTooLong"
  /\ hops >= 2
  /\ resolved.status = "Found"

-----------------------------------------------------------------------------
(* Properties of the BranchFile object, checked under Spec *)

\* index of the layout record that starts at offset o, 0 if there is none
LayoutIndex(o) ==
  IF \E i \in 1 .. Len(layout) : LayoutOffset(layout, i) = o
    THEN CHOOSE i \in 1 .. Len(layout) : LayoutOffset(layout, i) = o
    ELSE 0

\* offset o starts a complete BranchFile record with its whole fixed layout
ValidBranchFileAt(o) ==
  /\ LayoutIndex(o) \in 1 .. Complete
  /\ layout[LayoutIndex(o)].tag = TagBF
  /\ Len(layout[LayoutIndex(o)].payload) >= BFSize

\* the previousOffset stored in the layout record at offset o
StoredPrevious(o) == layout[LayoutIndex(o)].payload[1]

\* no complete layout record starts at offset o
NoRecordAt(o) == o >= Len(file) \/ LayoutIndex(o) \notin 1 .. Complete

\* C8: for a BranchFile object whose previousOffset points at a valid
\* preceding BranchFile record of the same file, previousOf returns a
\* BranchFile object whose own offset equals that previousOffset; when
\* previousOffset is outside the file or does not start a well-formed record,
\* resolution fails with BrokenChain and returns no object.
C8_PreviousOfRoundTrip ==
  (resolved # NoResult) =>
    /\ ValidBranchFileAt(resolved.from)
    /\ ( /\ StoredPrevious(resolved.from) < resolved.from
         /\ ValidBranchFileAt(StoredPrevious(resolved.from)) ) =>
           /\ resolved.status = "Found"
           /\ resolved.object.kind = "eBranchFile"
           /\ ~resolved.object.invalid
           /\ GetOffset(resolved.object.record) = StoredPrevious(resolved.from)
    /\ NoRecordAt(StoredPrevious(resolved.from)) =>
           /\ resolved.status = "BrokenChain"
           /\ resolved.object = NoObject

\* previousOf has resolved a link to the preceding BranchFile record
C8_Witness ==
  /\ resolved.status = "Found"
  /\ resolved.previousOffset < resolved.from
  /\ GetOffset(resolved.object.record) = resolved.previousOffset

\* previousOf has failed on a previousOffset outside the file
C8_BrokenReached ==
  /\ resolved.status = "BrokenChain"
  /\ resolved.previousOffset >= Len(file)

\* C7: decoding a BranchFile object's fields never reads a byte at or past
\* the end of the record's payload: a record whose payload is shorter than
\* the BranchFile fixed layout is marked invalid and reported, and its field
\* accessors return no value taken from outside the payload.
C7_NoReadPastPayload ==
  /\ got.outside = FALSE
  /\ \A i \in 1 .. Len(records) :
       (GetType(records[i]) = "eBranchFile" /\ GetLen(records[i]) < BFSize) =>
         /\ buildObject(records[i]).invalid
         /\ \E k \in 1 .. Len(findings) :
              findings[k] = [ kind |-> "InvalidPayload",
                              offset |-> GetOffset(records[i]) ]

\* C9: Validate on a path that does not resolve to a recognized physical file
\* fails with a typed error surfaced to the caller: Execute never ends with
\* neither a pass/fail outcome nor an error, and Validate is executed only
\* when the path resolved to a file object.
C9_NeverSilent ==
  /\ (pc = "returned") => outcome \in Outcomes
  /\ (pc = "validate" \/ records # << >>) => session # "none"

=============================================================================
